---- MODULE Spec2Model ----
(***************************************************************************)
(* A model of the agent harness of agent.py and schemas.py: agent          *)
(* construction (recipient registration, schema extraction, response       *)
(* schema) and the reason/act loop Agent.call with its synchronous nested  *)
(* calls to peer agents.                                                   *)
(*                                                                         *)
(* Python values are represented as follows.                               *)
(*   - an optional value (None / JSON null) is <<>> and a present value v  *)
(*     is <<v>>;                                                           *)
(*   - a dict is the sequence of its [key, value] entries in insertion     *)
(*     order (Python dicts keep insertion order);                          *)
(*   - a string built by an f-string is the sequence of its parts, so      *)
(*     f"talk_to_{x}" is <<"talk_to_", x>> and a plain name is <<name>>;   *)
(*   - json.dumps(v) is <<"json", v>>, json.loads undoes it;               *)
(*   - a dict object that several names may refer to lives in heap, and    *)
(*     a reference to it is its index there.                               *)
(***************************************************************************)
EXTENDS Integers, Sequences, FiniteSets, TLC

VARIABLES
    constructed,        \* the Agent objects that exist
    name,               \* Agent.name
    functions,          \* Agent.functions: a reference into heap
    recipients,         \* Agent.recipients: the peers, in order
    recipient_mapping,  \* the recipient_mapping the agent's closures captured
    tool_schema,        \* Agent.tool_schema
    response_schema,    \* Agent.response_schema
    conversation,       \* Agent.conversation
    heap,               \* the dict objects: caller-made and agent-made
    stack,              \* the active Agent.call frames, outermost first
    result,             \* how the most recent Agent.call ended
    invoked,            \* the registry callables the last step invoked
    completions,        \* completion requests issued so far
    ncalls              \* top-level calls made so far

vars == <<constructed, name, functions, recipients, recipient_mapping,
          tool_schema, response_schema, conversation, heap, stack, result,
          invoked, completions, ncalls>>

-----------------------------------------------------------------------------
(* Bounds of the model.                                                    *)

\* the largest max_retries a caller passes
MaxRetries == 2
\* the number of top-level calls the environment makes
MaxCalls == 1
\* the deepest nesting of Agent.call frames that is explored
MaxDepth == 2
\* the max_retries of a nested call: call's default, 100 in agent.py, scaled
\* down so that a nested call can run out of retries within the bounds
DefaultMaxRetries == 1

(* The objects and input values the environment draws from.                *)
AgentIds == {1, 2, 3}
\* heap index of the dict the caller built; index a is agent a's own {}
CallerDict == 0
DictIds == {CallerDict} \cup AgentIds
\* what the caller passes as functions=: None or its dict
FunctionArgs == {<<>>, <<CallerDict>>}
NameChoices(a) ==
    CASE a = 1 -> {"Agent2"}
      [] a = 2 -> {"Agent3", "AGENT2"}
      [] OTHER -> {"Agent1"}
Messages == {"m2"}
UserInputs == {"m1"}
Selectors == {"agent2", "agent3"}
FinalAnswers == {<<>>, <<"">>, <<"42">>}
UserResult == "Hello"

-----------------------------------------------------------------------------
(* Strings.                                                                *)

\* str.lower() on the agent names in use
Lower(s) ==
    CASE s = "Agent1" -> "agent1"
      [] s = "Agent2" -> "agent2"
      [] s = "AGENT2" -> "agent2"
      [] s = "Agent3" -> "agent3"
      [] OTHER -> s

\* str.capitalize() on the parameter names in use
Capitalize(s) ==
    CASE s = "name" -> "Name"
      [] s = "message" -> "Message"
      [] s = "recipient_name" -> "Recipient_name"
      [] s = "function_doc" -> "Function_doc"
      [] OTHER -> s

\* json.dumps and json.loads: a serialized value is not the value
Dumps(v) == <<"json", v>>
Loads(s) == s[2]

\* a Python str result, and the dict call_function returns for a missing name
StrValue(s) == <<"str", s>>
UnknownFunction(function_name) ==
    <<"dict", <<"error", <<"Unknown function '", function_name, "'">> >> >>

-----------------------------------------------------------------------------
(* Dicts as sequences of entries.                                          *)

Keys(d) == [i \in 1..Len(d) |-> d[i].key]
HasKey(d, k) == \E i \in 1..Len(d) : d[i].key = k
Get(d, k) == d[CHOOSE i \in 1..Len(d) : d[i].key = k].value
SetItem(d, k, v) ==
    IF HasKey(d, k)
    THEN [i \in 1..Len(d) |-> IF d[i].key = k THEN [key |-> k, value |-> v] ELSE d[i]]
    ELSE Append(d, [key |-> k, value |-> v])
Range(s) == {s[i] : i \in 1..Len(s)}

-----------------------------------------------------------------------------
(* Callables and their signatures.                                         *)

Prim(n) == [kind |-> "prim", name |-> n, members |-> <<>>]
EnumType(members) == [kind |-> "enum", name |-> "RecipientsEnum", members |-> members]
NoAnnotation == [kind |-> "empty", name |-> "", members |-> <<>>]

\* main.py's tool
say_hello ==
    [kind |-> "user", owner |-> 0, doc |-> <<>>,
     params |-> << [name |-> "name", annotation |-> Prim("str")] >>]

\* the dict the caller passes as functions=
agent2_functions == << [key |-> <<"say_hello">>, value |-> say_hello] >>

\* the members of RecipientsEnum: the keys of the dict comprehension, so one
\* member per distinct lowercased name, in first-seen order
RECURSIVE enum_members(_, _)
enum_members(recips, names) ==
    IF recips = <<>> THEN <<>>
    ELSE LET front == enum_members(SubSeq(recips, 1, Len(recips) - 1), names)
             id == Lower(names[recips[Len(recips)]])
         IN IF id \in Range(front) THEN front ELSE Append(front, id)

\* the closure _register_recipients makes for one recipient: its signature
\* is (message: str, recipient_name: RecipientsEnum, function_doc=...); its
\* body starts with an expression, not a string literal, so __doc__ is None
generated_function(owner, members) ==
    [kind |-> "recipient", owner |-> owner, doc |-> <<>>,
     params |-> << [name |-> "message", annotation |-> Prim("str")],
                  [name |-> "recipient_name", annotation |-> EnumType(members)],
                  [name |-> "function_doc", annotation |-> NoAnnotation] >>]

\* the registry after the loop of _register_recipients
RECURSIVE register_functions(_, _, _, _, _)
register_functions(reg, owner, members, recips, names) ==
    IF recips = <<>> THEN reg
    ELSE LET recipient_name == Lower(names[recips[1]])
             function_name == <<"talk_to_", recipient_name>>
         IN register_functions(
                SetItem(reg, function_name, generated_function(owner, members)),
                owner, members, Tail(recips), names)

\* recipient_mapping after the loop of _register_recipients
RECURSIVE register_mapping(_, _, _)
register_mapping(mapping, recips, names) ==
    IF recips = <<>> THEN mapping
    ELSE register_mapping(SetItem(mapping, Lower(names[recips[1]]), recips[1]),
                          Tail(recips), names)

-----------------------------------------------------------------------------
(* schemas.py                                                              *)

get_python_type(annotation) ==
    CASE annotation = "str" -> "string"
      [] annotation = "int" -> "integer"
      [] annotation = "float" -> "number"
      [] annotation = "bool" -> "boolean"
      [] annotation = "dict" -> "object"
      [] annotation = "list" -> "array"

\* the Enum branch and the plain-type branch; enum is <<>> when the key is absent
get_schema_for_type(annotation) ==
    IF annotation.kind = "enum"
    THEN [type |-> "string", enum |-> <<annotation.members>>]
    ELSE [type |-> get_python_type(annotation.name), enum |-> <<>>]

\* the schema of one parameter, with its title and description
param_schema(param) ==
    LET annotation == IF param.annotation # NoAnnotation THEN param.annotation
                      ELSE Prim("str")
        schema == get_schema_for_type(annotation)
    IN [type |-> schema.type, enum |-> schema.enum,
        title |-> Capitalize(param.name),
        description |-> <<"Parameter for ", param.name>>]

parameters_schema(func) ==
    [i \in 1..Len(func.params) |->
        [key |-> func.params[i].name, value |-> param_schema(func.params[i])]]

tool_definition(function_name, func) ==
    [function |->
        [name |-> function_name,
         description |-> IF func.doc # <<>> THEN func.doc[1]
                         ELSE "No description available.",
         parameters |->
            [type |-> "object",
             properties |-> parameters_schema(func),
             required |-> Keys(parameters_schema(func)),
             additionalProperties |-> FALSE],
         strict |-> TRUE],
     type |-> "function"]

extract_function_schema(funcs) ==
    Dumps([i \in 1..Len(funcs) |-> tool_definition(funcs[i].key, funcs[i].value)])

action_input_branch(tool) ==
    [type |-> "object",
     properties |->
        [name |-> [enum |-> <<tool.function.name>>,
                   description |-> tool.function.description],
         arguments |-> tool.function.parameters],
     required |-> <<"name", "arguments">>,
     additionalProperties |-> FALSE]

\* build_action_input_schema with one enumeration of every tool name shared
\* by all the branches
build_action_input_schema_shared(tool_definitions_schema) ==
    LET tool_definitions == Loads(tool_definitions_schema)
        names == [i \in 1..Len(tool_definitions) |-> tool_definitions[i].function.name]
        branches == [i \in 1..Len(tool_definitions) |->
                        [action_input_branch(tool_definitions[i])
                            EXCEPT !.properties.name.enum = names]]
    IN branches \o << [type |-> "null"] >>

build_action_input_schema(tool_definitions_schema) ==
    LET tool_definitions == Loads(tool_definitions_schema)
        branches == [i \in 1..Len(tool_definitions) |->
                        action_input_branch(tool_definitions[i])]
    IN branches \o << [type |-> "null"] >>

generate_response_schema(tool_definitions_schema) ==
    [type |-> "object",
     properties |->
        [Thought |-> [type |-> "string"],
         Action |-> [type |-> "string", enum |-> <<"CALL_FUNCTION", "NONE">>],
         Action_Input |-> [anyOf |-> build_action_input_schema(tool_definitions_schema)],
         Observation |-> [anyOf |-> << [type |-> "string"], [type |-> "null"],
                                      [type |-> "object"] >>],
         Final_Answer |-> [anyOf |-> << [type |-> "string"], [type |-> "null"] >>]],
     additionalProperties |-> FALSE,
     required |-> <<"Thought", "Action", "Action Input", "Observation", "Final Answer">>]

-----------------------------------------------------------------------------
(* Agent.__init__                                                          *)

Message(role, fname, content) == [role |-> role, name |-> fname, content |-> content]
Text(s) == <<"text", s>>

\* the system prompt, supplied or generated: its text plays no part here
system_prompt == Text("system_prompt")

NoResult ==
    [kind |-> "none", agent |-> 0, value |-> "", by |-> "", requests |-> 0,
     max_retries |-> 0, depth |-> 0]

Init ==
    /\ constructed = {}
    /\ name = [a \in AgentIds |-> ""]
    /\ functions = [a \in AgentIds |-> a]
    /\ recipients = [a \in AgentIds |-> <<>>]
    /\ recipient_mapping = [a \in AgentIds |-> <<>>]
    /\ tool_schema = [a \in AgentIds |-> Dumps(<<>>)]
    /\ response_schema = [a \in AgentIds |-> <<>>]
    /\ conversation = [a \in AgentIds |-> <<>>]
    /\ heap = [d \in DictIds |-> IF d = CallerDict THEN agent2_functions ELSE <<>>]
    /\ stack = <<>>
    /\ result = NoResult
    /\ invoked = <<>>
    /\ completions = 0
    /\ ncalls = 0

\* the peer lists a caller can pass: constructed agents, each at most once
RecipientLists ==
    {<<>>} \cup {<<p>> : p \in constructed}
           \cup {pq \in constructed \X constructed : pq[1] # pq[2]}

\* self.functions = functions or {}: the caller's dict object itself unless
\* it is None or empty, and then a new dict
functions_or_new(a, functions_arg) ==
    IF functions_arg # <<>> /\ heap[functions_arg[1]] # <<>>
    THEN functions_arg[1]
    ELSE a

Construct(a, agent_name, functions_arg, recips) ==
    /\ stack = <<>>
    /\ a \notin constructed
    /\ \A b \in AgentIds : b < a => b \in constructed
    /\ LET ref == functions_or_new(a, functions_arg)
           names == [name EXCEPT ![a] = agent_name]
           members == enum_members(recips, names)
           registry == register_functions(heap[ref], a, members, recips, names)
           schema == extract_function_schema(registry)
       IN /\ name' = names
          /\ functions' = [functions EXCEPT ![a] = ref]
          /\ recipients' = [recipients EXCEPT ![a] = recips]
          /\ recipient_mapping' =
                [recipient_mapping EXCEPT ![a] = register_mapping(<<>>, recips, names)]
          /\ heap' = [heap EXCEPT ![ref] = registry]
          /\ tool_schema' = [tool_schema EXCEPT ![a] = schema]
          /\ conversation' =
                [conversation EXCEPT ![a] = << Message("system", <<>>, system_prompt) >>]
          /\ response_schema' =
                [response_schema EXCEPT ![a] = generate_response_schema(schema)]
    /\ constructed' = constructed \cup {a}
    /\ invoked' = <<>>
    /\ UNCHANGED <<stack, result, completions, ncalls>>

-----------------------------------------------------------------------------
(* Agent.call                                                              *)

Sentinel == "Error: Maximum retries reached."
Corrective == Text("Action Input and Final Answer can't be null simultaneously")

Frame(a, n) ==
    [agent |-> a, i |-> 0, max_retries |-> n, requests |-> 0, fn |-> <<>>, start |-> 0]

Top == stack[Len(stack)]

\* truthiness of an optional str: neither None nor ""
Truthy(opt) == opt # <<>> /\ opt[1] # ""

\* kwargs.get(key)
Kwarg(kwargs, key) == Get(kwargs, key)

\* the parsed responses the completion endpoint may give agent a
Response(final_answer, action_input) ==
    [Thought |-> "",
     Action |-> IF action_input = <<>> THEN "NONE" ELSE "CALL_FUNCTION",
     Action_Input |-> action_input,
     Observation |-> <<>>,
     Final_Answer |-> final_answer]

ArgumentsFor(registry, function_name) ==
    IF ~HasKey(registry, function_name) THEN { <<>> }
    ELSE IF Get(registry, function_name).kind = "user"
    THEN { << [key |-> "name", value |-> "Alice"] >> }
    ELSE { << [key |-> "message", value |-> m],
              [key |-> "recipient_name", value |-> s] >> :
           m \in Messages, s \in Selectors }

ActionInputs(a) ==
    LET registry == heap[functions[a]] IN
    { <<>> } \cup
    { << [name |-> n, arguments |-> args] >> :
        <<n, args>> \in UNION { {n} \X ArgumentsFor(registry, n) :
                                n \in Range(Keys(registry)) \cup { <<"unknown_fn">> } } }

\* what calling a registry entry can do: return a value, raise, or (a
\* recipient closure) enter the selected peer's call
Outcome(kind, value, peer, message) ==
    [kind |-> kind, value |-> value, peer |-> peer, message |-> message]

\* a recipient closure that reads the loop variable recipient_name of
\* _register_recipients instead of its own parameter: late binding, so
\* every closure reaches the recipient registered last
generated_function_call_late(owner, kwargs) ==
    LET recipient_name == Lower(name[recipients[owner][Len(recipients[owner])]])
        mapping == recipient_mapping[owner]
    IN IF HasKey(mapping, recipient_name)
       THEN { Outcome("call", <<>>, Get(mapping, recipient_name), Kwarg(kwargs, "message")) }
       ELSE { Outcome("raise", <<>>, 0, "") }

\* the body of a recipient closure: recipient_mapping[recipient_name].call(message),
\* a KeyError when the selector is no key of the mapping
generated_function_call(owner, kwargs) ==
    LET recipient_name == Kwarg(kwargs, "recipient_name")
        mapping == recipient_mapping[owner]
    IN IF HasKey(mapping, recipient_name)
       THEN { Outcome("call", <<>>, Get(mapping, recipient_name), Kwarg(kwargs, "message")) }
       ELSE { Outcome("raise", <<>>, 0, "") }

\* a caller-supplied function returns its result or raises
user_function_call ==
    { Outcome("return", StrValue(UserResult), 0, ""), Outcome("raise", <<>>, 0, "") }

\* call_function with self.functions[function_name]: a KeyError for a
\* name that is not registered
call_function_subscript(a, function_name, kwargs) ==
    LET registry == heap[functions[a]] IN
    IF ~HasKey(registry, function_name)
    THEN { Outcome("raise", <<>>, 0, "") }
    ELSE LET function == Get(registry, function_name) IN
         IF function.kind = "user" THEN user_function_call
         ELSE generated_function_call(function.owner, kwargs)

call_function(a, function_name, kwargs) ==
    LET registry == heap[functions[a]] IN
    IF ~HasKey(registry, function_name)
    THEN { Outcome("return", UnknownFunction(function_name), 0, "") }
    ELSE LET function == Get(registry, function_name) IN
         IF function.kind = "user" THEN user_function_call
         ELSE generated_function_call(function.owner, kwargs)

\* the callables call_function invokes for this name: none when it is unknown
Invokes(a, function_name) ==
    IF HasKey(heap[functions[a]], function_name) THEN <<function_name>> ELSE <<>>

\* Agent.call returns value: to the program when the frame is outermost,
\* else into the caller's dispatch (lines 145-150), which appends the
\* function-result message and ends its iteration
Return(conv, value, by, requests) ==
    /\ result' = [kind |-> "return", agent |-> Top.agent, value |-> value, by |-> by,
                  requests |-> requests, max_retries |-> Top.max_retries,
                  depth |-> Len(stack)]
    /\ IF Len(stack) = 1
       THEN /\ stack' = <<>>
            /\ conversation' = conv
       ELSE LET caller == stack[Len(stack) - 1] IN
            /\ conversation' =
                  [conv EXCEPT ![caller.agent] =
                      Append(@, Message("function", <<caller.fn>>, Dumps(StrValue(value))))]
            /\ stack' = Append(SubSeq(stack, 1, Len(stack) - 2),
                               [caller EXCEPT !.i = @ + 1, !.fn = <<>>, !.start = 0])

\* an exception leaves every active call: nothing catches it
Raise ==
    /\ result' = [kind |-> "raise", agent |-> stack[1].agent, value |-> "",
                  by |-> "exception", requests |-> stack[1].requests + (IF Len(stack) = 1 THEN 1 ELSE 0),
                  max_retries |-> stack[1].max_retries, depth |-> 1]
    /\ stack' = <<>>

\* a top-level call: line 114, then the loop
Call(a, user_input, max_retries) ==
    /\ stack = <<>>
    /\ a \in constructed
    /\ ncalls < MaxCalls
    /\ conversation' = [conversation EXCEPT ![a] = Append(@, Message("user", <<>>, Text(user_input)))]
    /\ stack' = << Frame(a, max_retries) >>
    /\ result' = NoResult
    /\ ncalls' = ncalls + 1
    /\ invoked' = <<>>
    /\ UNCHANGED <<constructed, name, functions, recipients, recipient_mapping,
                   tool_schema, response_schema, heap, completions>>

\* lines 117-131 keeping the transcript short: the assistant message takes
\* the place of the last entry
Requested_replacing(a, response_message) ==
    [conversation EXCEPT ![a] =
        Append(SubSeq(@, 1, Len(@) - 1), Message("assistant", <<>>, response_message))]

\* lines 117-131: the completion request and the assistant message
Requested(a, response_message) ==
    [conversation EXCEPT ![a] = Append(@, Message("assistant", <<>>, response_message))]

\* lines 143-150: the dispatch of the response's Action Input
Dispatch(response_message) ==
    LET structured_output == Loads(response_message)
        a == Top.agent
        conv == Requested(a, response_message)
        action_input == structured_output.Action_Input[1]
        function_name == action_input.name
        arguments == action_input.arguments
    IN /\ invoked' = Invokes(a, function_name)
       /\ \E out \in call_function(a, function_name, arguments) :
            CASE out.kind = "return" ->
                  /\ conversation' =
                        [conv EXCEPT ![a] =
                            Append(@, Message("function", <<function_name>>,
                                              Dumps(out.value)))]
                  /\ stack' = [stack EXCEPT ![Len(stack)] =
                                  [@ EXCEPT !.i = @ + 1, !.requests = @ + 1]]
                  /\ UNCHANGED result
              [] out.kind = "raise" ->
                  /\ conversation' = conv
                  /\ Raise
              [] out.kind = "call" ->
                  /\ Len(stack) < MaxDepth
                  /\ conversation' =
                        [conv EXCEPT ![out.peer] =
                            Append(@, Message("user", <<>>, Text(out.message)))]
                  /\ stack' = Append(
                        [stack EXCEPT ![Len(stack)] =
                            [@ EXCEPT !.requests = @ + 1, !.fn = function_name,
                                      !.start = Len(conversation[a])]],
                        Frame(out.peer, DefaultMaxRetries))
                  /\ UNCHANGED result

\* lines 139-142 with the two tests in the other order: a response that
\* carries both a Final Answer and an Action Input is dispatched
Terminating_swapped(response_message) ==
    LET structured_output == Loads(response_message)
        conv == Requested(Top.agent, response_message)
    IN /\ Truthy(structured_output.Final_Answer)
       /\ IF structured_output.Action_Input = <<>>
          THEN /\ Return(conv, structured_output.Final_Answer[1], "final", Top.requests + 1)
               /\ invoked' = <<>>
          ELSE Dispatch(response_message)

\* lines 139-140
Terminating(response_message) ==
    LET structured_output == Loads(response_message)
        conv == Requested(Top.agent, response_message)
    IN /\ Truthy(structured_output.Final_Answer)
       /\ Return(conv, structured_output.Final_Answer[1], "final", Top.requests + 1)
       /\ invoked' = <<>>

\* line 142: no Final Answer, and an Action Input
Dispatching(response_message) ==
    LET structured_output == Loads(response_message)
    IN /\ ~Truthy(structured_output.Final_Answer)
       /\ structured_output.Action_Input # <<>>
       /\ Dispatch(response_message)

\* lines 151-155 raising instead of correcting the model
Malformed_fatal(response_message) ==
    LET structured_output == Loads(response_message)
        conv == Requested(Top.agent, response_message)
    IN /\ ~Truthy(structured_output.Final_Answer)
       /\ structured_output.Action_Input = <<>>
       /\ conversation' = conv
       /\ Raise
       /\ invoked' = <<>>

\* lines 151-155
Malformed(response_message) ==
    LET structured_output == Loads(response_message)
        a == Top.agent
        conv == Requested(a, response_message)
    IN /\ ~Truthy(structured_output.Final_Answer)
       /\ structured_output.Action_Input = <<>>
       /\ conversation' = [conv EXCEPT ![a] = Append(@, Message("system", <<>>, Corrective))]
       /\ stack' = [stack EXCEPT ![Len(stack)] = [@ EXCEPT !.i = @ + 1, !.requests = @ + 1]]
       /\ invoked' = <<>>
       /\ UNCHANGED result

\* one pass of the loop body of the innermost active call
Iterate ==
    /\ stack # <<>>
    /\ Top.i < Top.max_retries
    /\ completions' = completions + 1
    /\ \E final_answer \in FinalAnswers, action_input \in ActionInputs(Top.agent) :
          LET response_message == Dumps(Response(final_answer, action_input)) IN
            \/ Terminating(response_message)
            \/ Dispatching(response_message)
            \/ Malformed(response_message)
    /\ UNCHANGED <<constructed, name, functions, recipients, recipient_mapping,
                   tool_schema, response_schema, heap, ncalls>>

\* line 157: the loop ran out
Exhausted ==
    /\ stack # <<>>
    /\ Top.i >= Top.max_retries
    /\ Return(conversation, Sentinel, "sentinel", Top.requests)
    /\ invoked' = <<>>
    /\ UNCHANGED <<constructed, name, functions, recipients, recipient_mapping,
                   tool_schema, response_schema, heap, completions, ncalls>>

\* every way to construct the next agent
ConstructAny ==
    \E a \in AgentIds : \E agent_name \in NameChoices(a),
        functions_arg \in FunctionArgs, recips \in RecipientLists :
            Construct(a, agent_name, functions_arg, recips)

\* the programs whose calls are explored: main.py's agent with say_hello,
\* a second agent that may delegate to it, and a third that delegates to
\* both, with its own registry or sharing the caller's dict with the first
ProgramArgs(a) ==
    CASE a = 1 -> { <<"Agent2", <<CallerDict>>, <<>> >> }
      [] a = 2 -> { <<n, <<>>, r>> : n \in NameChoices(2), r \in { <<>>, <<1>> } }
      [] OTHER -> { <<"Agent1", f, <<1, 2>> >> : f \in FunctionArgs }

ConstructProgram ==
    /\ ncalls = 0
    /\ \E a \in AgentIds : \E args \in ProgramArgs(a) :
            Construct(a, args[1], args[2], args[3])

CallAny ==
    \E a \in AgentIds, user_input \in UserInputs, max_retries \in 0..MaxRetries :
        Call(a, user_input, max_retries)

\* construction alone, over every input
BuildNext == ConstructAny
BuildSpec == Init /\ [][BuildNext]_vars

\* programs that construct their agents and then call one
Next ==
    \/ ConstructProgram
    \/ CallAny
    \/ Iterate
    \/ Exhausted

Spec == Init /\ [][Next]_vars

-----------------------------------------------------------------------------
(* What a step did, read off the two states.                               *)

\* the step issued a completion request: it is a pass of the loop body
IterationStep == stack # <<>> /\ completions' # completions

\* the transcript of the running agent kept its entries and gained one
AssistantAppended ==
    LET a == Top.agent
        k == Len(conversation[a])
    IN /\ Len(conversation'[a]) > k
       /\ SubSeq(conversation'[a], 1, k) = conversation[a]
       /\ conversation'[a][k + 1].role = "assistant"

\* the response of the pass, parsed from the assistant message it appended
StepResponse ==
    Loads(conversation'[Top.agent][Len(conversation[Top.agent]) + 1].content)
StepMessage == conversation'[Top.agent][Len(conversation[Top.agent]) + 1]

\* the transcripts when the running agent's gained exactly these entries
\* and no other transcript changed
Gained(entries) == [conversation EXCEPT ![Top.agent] = @ \o entries]

\* the frames when the innermost one finished a pass and nothing else moved
NextPass ==
    [stack EXCEPT ![Len(stack)] = [@ EXCEPT !.i = @ + 1, !.requests = @ + 1]]

LastOf(seq) == seq[Len(seq)]

-----------------------------------------------------------------------------
(* C1: a pass whose response has a non-null, non-empty Final Answer makes  *)
(* call return exactly that value in that pass, whatever the Action Input: *)
(* no registry function is invoked, the pass issued one completion request *)
(* and no other, and the call appends nothing after the assistant message  *)
(* (the caller of a nested call then records the value as its function     *)
(* result).                                                                *)
C1_FinalAnswerReturns ==
    [][ (IterationStep /\ AssistantAppended
            /\ StepResponse.Final_Answer # <<>>
            /\ StepResponse.Final_Answer[1] # "")
        => LET value == StepResponse.Final_Answer[1] IN
           /\ result' = [kind |-> "return", agent |-> Top.agent, value |-> value,
                         by |-> "final", requests |-> Top.requests + 1,
                         max_retries |-> Top.max_retries, depth |-> Len(stack)]
           /\ invoked' = <<>>
           /\ completions' = completions + 1
           /\ IF Len(stack) = 1
              THEN /\ stack' = <<>>
                   /\ conversation' = Gained(<<StepMessage>>)
              ELSE LET caller == stack[Len(stack) - 1] IN
                   /\ Len(stack') = Len(stack) - 1
                   /\ conversation' =
                         [Gained(<<StepMessage>>) EXCEPT ![caller.agent] =
                             Append(@, Message("function", <<caller.fn>>,
                                               Dumps(StrValue(value))))]
      ]_vars

\* a call has returned the Final Answer of a response that also asked for a tool
C1_Witness ==
    /\ stack = <<>>
    /\ result.kind = "return"
    /\ result.value = "42"
    /\ LastOf(conversation[result.agent]).role = "assistant"
    /\ Loads(LastOf(conversation[result.agent]).content).Action_Input # <<>>
    /\ Loads(LastOf(conversation[result.agent]).content).Final_Answer = <<"42">>

-----------------------------------------------------------------------------
(* C4: a pass whose response has no Final Answer and names a function that *)
(* is not in the agent's registry raises nothing: the transcript gains the *)
(* assistant message and exactly one function-result message holding the   *)
(* serialized error object, the pass counts against the bound, and the     *)
(* call goes on.                                                           *)
C4_UnknownFunctionFedBack ==
    [][ (IterationStep /\ AssistantAppended
            /\ (StepResponse.Final_Answer = <<>> \/ StepResponse.Final_Answer = <<"">>)
            /\ StepResponse.Action_Input # <<>>
            /\ \A i \in 1..Len(heap[functions[Top.agent]]) :
                  heap[functions[Top.agent]][i].key # StepResponse.Action_Input[1].name)
        => LET function_name == StepResponse.Action_Input[1].name
               error == <<"dict", <<"error", <<"Unknown function '", function_name, "'">> >> >>
           IN /\ conversation' =
                    Gained(<<StepMessage,
                             [role |-> "function", name |-> <<function_name>>,
                              content |-> <<"json", error>>]>>)
              /\ stack' = NextPass
              /\ result' = result
              /\ invoked' = <<>>
      ]_vars

\* a running call has just been told that the function it named is unknown
C4_Witness ==
    /\ stack # <<>>
    /\ Top.i = 1
    /\ Top.i < Top.max_retries
    /\ LastOf(conversation[Top.agent]).role = "function"
    /\ LastOf(conversation[Top.agent]).name = << <<"unknown_fn">> >>
    /\ LastOf(conversation[Top.agent]).content =
          <<"json", <<"dict", <<"error", <<"Unknown function '", <<"unknown_fn">>, "'">> >> >> >>

-----------------------------------------------------------------------------
(* C5: a pass whose response has neither a Final Answer nor an Action      *)
(* Input neither ends nor fails the call: the transcript gains the         *)
(* assistant message and one corrective system message, the iteration      *)
(* count goes up by exactly one, and the call is still running, so its     *)
(* next step is a new completion request or the sentinel.                  *)
C5_MalformedRecovery ==
    [][ (IterationStep /\ AssistantAppended
            /\ (StepResponse.Final_Answer = <<>> \/ StepResponse.Final_Answer = <<"">>)
            /\ StepResponse.Action_Input = <<>>)
        => /\ conversation' =
                 Gained(<<StepMessage,
                          [role |-> "system", name |-> <<>>,
                           content |-> <<"text", "Action Input and Final Answer can't be null simultaneously">>]>>)
           /\ Len(stack') = Len(stack)
           /\ SubSeq(stack', 1, Len(stack) - 1) = SubSeq(stack, 1, Len(stack) - 1)
           /\ Top'.agent = Top.agent
           /\ Top'.i = Top.i + 1
           /\ Top'.i <= Top'.max_retries
           /\ Top'.max_retries = Top.max_retries
           /\ result' = result
           /\ invoked' = <<>>
      ]_vars

\* a running call has just been corrected and has a pass left
C5_Witness ==
    /\ stack # <<>>
    /\ Top.i = 1
    /\ Top.i < Top.max_retries
    /\ LastOf(conversation[Top.agent]).role = "system"
    /\ Len(conversation[Top.agent]) = 4

-----------------------------------------------------------------------------
(* How a step moved the innermost call.                                    *)

FinalAnswerAbsent ==
    StepResponse.Final_Answer = <<>> \/ StepResponse.Final_Answer = <<"">>

\* the innermost call returned to its caller or to the program
Returned == stack # <<>> /\ Len(stack') = Len(stack) - 1 /\ result'.kind = "return"
\* an exception left the calls
Raised == stack # <<>> /\ stack' = <<>> /\ result'.kind = "raise"
\* the innermost call finished a pass and goes on
Stayed == stack # <<>> /\ Len(stack') = Len(stack)
\* the innermost call entered a nested call
Entered == stack # <<>> /\ Len(stack') = Len(stack) + 1

Registered(a, function_name) ==
    \E i \in 1..Len(heap[functions[a]]) : heap[functions[a]][i].key = function_name

-----------------------------------------------------------------------------
(* C2: a call in which no response carries a non-empty Final Answer issues *)
(* exactly max_retries completion requests and then returns the sentinel   *)
(* string as an ordinary value, raising nothing; no call ever issues more  *)
(* than max_retries requests.                                              *)
C2_ExhaustionReturnsSentinel ==
    /\ \A j \in 1..Len(stack) : stack[j].requests <= stack[j].max_retries
    /\ (result.kind # "none" /\ ~(result.kind = "return" /\ result.by = "final"))
         => /\ result.kind = "return"
            /\ result.value = "Error: Maximum retries reached."
            /\ result.requests = result.max_retries

-----------------------------------------------------------------------------
(* C3: when the response of a pass dispatches a registered callable, a     *)
(* failure of the callable does not leave call: the pass either enters the *)
(* peer's call or ends with a function-result message appended and the     *)
(* loop going on to its next pass.                                         *)
C3_CallableFailureFedBack ==
    [][ (IterationStep /\ AssistantAppended /\ FinalAnswerAbsent
            /\ StepResponse.Action_Input # <<>>
            /\ Registered(Top.agent, StepResponse.Action_Input[1].name))
        => /\ result'.kind # "raise"
           /\ Len(stack') >= Len(stack)
           /\ Len(stack') = Len(stack)
                => /\ LastOf(conversation'[Top.agent]).role = "function"
                   /\ Top'.i = Top.i + 1
      ]_vars

-----------------------------------------------------------------------------
(* C6.  The entries a step's pass itself appended to the running agent's   *)
(* transcript: the growth of that transcript, less the function-result its *)
(* caller recorded there and the user message a nested call opened there   *)
(* when caller or peer is the same agent.                                  *)
OwnGrowth ==
    LET a == Top.agent IN
    Len(conversation'[a]) - Len(conversation[a])
      - (IF Returned /\ Len(stack) > 1 /\ stack[Len(stack) - 1].agent = a THEN 1 ELSE 0)
      - (IF Entered /\ Top'.agent = a THEN 1 ELSE 0)

AppendOnly ==
    \A b \in constructed :
        /\ Len(conversation'[b]) >= Len(conversation[b])
        /\ SubSeq(conversation'[b], 1, Len(conversation[b])) = conversation[b]

\* a nested call returned, which ends the dispatch pass of its caller
CallerPassEnded == Returned /\ Len(stack) > 1

\* what the caller's transcript gained since its dispatch pass began
CallerSegment ==
    LET caller == stack[Len(stack) - 1] IN
    SubSeq(conversation'[caller.agent], caller.start + 1, Len(conversation'[caller.agent]))

\* no call on the same agent was opened meanwhile
NoReentry(segment) == \A j \in 1..Len(segment) : segment[j].role # "user"

Roles(conv) == [j \in 1..Len(conv) |-> conv[j].role]

-----------------------------------------------------------------------------
(* C7: for an owner whose peers have pairwise distinct identities, a       *)
(* recipient callable invoked with message m and the selector of peer p    *)
(* enters p's call with m, once, and no other peer's; the caller does not  *)
(* move until that call has returned, and what the call returns (a Final   *)
(* Answer or the sentinel) is the callable's result, which the caller      *)
(* records unchanged. The selector decides the peer, not the callable.     *)
DistinctIdentities(o) ==
    \A i, j \in 1..Len(recipients[o]) :
        i # j => Lower(name[recipients[o][i]]) # Lower(name[recipients[o][j]])

C7_RecipientCallReachesSelectedPeer ==
    [][ /\ (IterationStep /\ AssistantAppended /\ FinalAnswerAbsent
              /\ StepResponse.Action_Input # <<>>
              /\ Registered(Top.agent, StepResponse.Action_Input[1].name)
              /\ Get(heap[functions[Top.agent]],
                     StepResponse.Action_Input[1].name).kind = "recipient")
             => LET action_input == StepResponse.Action_Input[1]
                    owner == Get(heap[functions[Top.agent]], action_input.name).owner
                    selector == Get(action_input.arguments, "recipient_name")
                    message == Get(action_input.arguments, "message")
                IN DistinctIdentities(owner) =>
                   \A p \in Range(recipients[owner]) :
                      Lower(name[p]) = selector
                      => /\ Len(stack') = Len(stack) + 1
                         /\ Top' = [agent |-> p, i |-> 0,
                                    max_retries |-> DefaultMaxRetries,
                                    requests |-> 0, fn |-> <<>>, start |-> 0]
                         /\ stack'[Len(stack)].agent = Top.agent
                         /\ stack'[Len(stack)].i = Top.i
                         /\ stack'[Len(stack)].fn = action_input.name
                         /\ conversation' =
                               [Gained(<<StepMessage>>) EXCEPT ![p] =
                                   Append(@, [role |-> "user", name |-> <<>>,
                                              content |-> <<"text", message>>])]
                         /\ invoked' = <<action_input.name>>
        /\ (Len(stack) >= 2 /\ Len(stack') >= Len(stack))
             => SubSeq(stack', 1, Len(stack) - 1) = SubSeq(stack, 1, Len(stack) - 1)
        /\ (Len(stack) >= 2 /\ Returned)
             => LET caller == stack[Len(stack) - 1]
                    value == IF IterationStep THEN StepResponse.Final_Answer[1]
                             ELSE "Error: Maximum retries reached."
                IN /\ result'.agent = Top.agent
                   /\ result'.value = value
                   /\ LastOf(conversation'[caller.agent]) =
                         [role |-> "function", name |-> <<caller.fn>>,
                          content |-> <<"json", <<"str", value>> >>]
                   /\ stack' = Append(SubSeq(stack, 1, Len(stack) - 2),
                                      [caller EXCEPT !.i = @ + 1, !.fn = <<>>, !.start = 0])
      ]_vars

\* the third agent is inside talk_to_agent3, the callable created last, with
\* the selector of its first peer, and that peer's call is running with m2
C7_Witness ==
    /\ Len(stack) = 2
    /\ stack[1].agent = 3
    /\ stack[1].fn = <<"talk_to_", "agent3">>
    /\ name[2] = "Agent3"
    /\ stack[2].agent = 1
    /\ LastOf(conversation[1]) =
          [role |-> "user", name |-> <<>>, content |-> <<"text", "m2">>]

-----------------------------------------------------------------------------
(* C8: the Action Input union of an agent's response schema has one        *)
(* object branch per tool definition, in the order of the tool             *)
(* definitions, then one null branch; branch i's name enumeration is the   *)
(* singleton of tool i's name and its arguments schema is tool i's         *)
(* parameter schema, so no two branches share a name.                      *)
ToolsOf(a) == tool_schema[a][2]
BranchesOf(a) == response_schema[a].properties.Action_Input.anyOf

C8_ActionInputBranches ==
    \A a \in constructed :
        /\ Len(BranchesOf(a)) = Len(ToolsOf(a)) + 1
        /\ BranchesOf(a)[Len(BranchesOf(a))] = [type |-> "null"]
        /\ \A i \in 1..Len(ToolsOf(a)) :
              /\ BranchesOf(a)[i].type = "object"
              /\ BranchesOf(a)[i].properties.name.enum = << ToolsOf(a)[i].function.name >>
              /\ BranchesOf(a)[i].properties.arguments = ToolsOf(a)[i].function.parameters
              /\ \A j \in 1..Len(ToolsOf(a)) :
                    j # i => Range(BranchesOf(a)[i].properties.name.enum)
                               \cap Range(BranchesOf(a)[j].properties.name.enum) = {}

\* an agent with three tools: a caller-supplied one and two recipient callables
C8_Witness ==
    \E a \in constructed :
        /\ Len(ToolsOf(a)) = 3
        /\ Len(BranchesOf(a)) = 4
        /\ ToolsOf(a)[1].function.name = <<"say_hello">>

-----------------------------------------------------------------------------
-----------------------------------------------------------------------------
(* C10: agents share no mutable state: no step, a construction or a step   *)
(* of a call, changes the registry of an agent that already exists, an     *)
(* agent's transcript changes only while that agent has a call running,    *)
(* and the names in an agent's registry are always the names of its tool   *)
(* definitions.                                                            *)
RegistryOf(a) == heap[functions[a]]
Running(a) == \E j \in 1..Len(stack) : stack[j].agent = a

C10_RegistriesOwned ==
    [][ /\ \A b \in constructed :
              /\ RegistryOf(b)' = RegistryOf(b)
              /\ conversation'[b] # conversation[b] => (Running(b) \/ Running(b)')
        /\ \A b \in constructed' :
              Keys(RegistryOf(b))' =
                [i \in 1..Len(ToolsOf(b)') |-> ToolsOf(b)'[i].function.name]
      ]_vars

====
